---- MODULE Spec2Model ----
(***************************************************************************)
(* Model of turn_manager.py: the shift roster generator                    *)
(* (ScheduleTab.generate_schedule), the roster repairer                    *)
(* (ScheduleTab.update_schedule), clear_schedule and the DatabaseManager   *)
(* tables they read and write.                                             *)
(*                                                                         *)
(* Dates.  A datetime.date is the tuple <<year, month, day>>.  The text    *)
(* "YYYY-MM-DD" that strftime produces and the tables store is the number  *)
(* year*10000 + month*100 + day: for four-digit years the order of these   *)
(* numbers is the order of the zero-padded strings SQLite compares.        *)
(*                                                                         *)
(* Handlers run to completion, one at a time (tkinter callbacks).  The two *)
(* long handlers are split at their loop bodies; pc says which loop is     *)
(* running and no other handler is enabled until pc is back to "idle".     *)
(***************************************************************************)
EXTENDS Integers, Sequences, FiniteSets, TLC

VARIABLES
    employees,        \* table employees, in id order
    settings,         \* table settings: key -> text
    absences,         \* table absences: rows (employee_id, start_date, end_date) as text
    festivities,      \* table festivities: date text -> is_working_day
    shifts,           \* table shifts, in id order
    next_shift_id,    \* AUTOINCREMENT counter of table shifts
    schedules,        \* table schedules: <<year, month>> -> saved snapshot
    current_date,     \* ScheduleTab.current_date (first day of the month shown)
    message,          \* the last messagebox shown
    pc,               \* "idle", "gen", "pass1", "pass2"
    day,              \* loop variable day of the running handler
    shift_idx,        \* index into shift_types of the slot being processed
    rec_idx,          \* index of the record being processed within the slot (repair)
    assigned_hours,   \* Emp.assigned_hours / emp_map[..]["assigned_hours"], by employee id
    schedule,         \* the handler's local schedule dict
    warnings_list,    \* generate_schedule's warnings_list
    changes,          \* update_schedule's changes counter
    assigned_ids,     \* update_schedule's assigned_ids of the slot being processed
    new_assignments,  \* update_schedule's new_assignments of the slot being processed
    pre,              \* history: shifts and schedules when the running/last handler started
    history,          \* history: the handlers completed so far, oldest first
    budget,           \* handler calls still allowed in this behaviour
    stats_date,       \* StatsTab.current_date (first day of the month of the statistics)
    tree              \* StatsTab.tree: the rows of the statistics shown

vars == <<employees, settings, absences, festivities, shifts, next_shift_id, schedules,
          current_date, message, pc, day, shift_idx, rec_idx, assigned_hours, schedule,
          warnings_list, changes, assigned_ids, new_assignments, pre, history, budget,
          stats_date, tree>>

dbVars == <<employees, settings, absences, festivities, shifts, next_shift_id, schedules>>
statsVars == <<stats_date, tree>>
localVars == <<day, shift_idx, rec_idx, assigned_hours, schedule, warnings_list, changes,
               assigned_ids, new_assignments>>

----------------------------------------------------------------------------
(* Bounds of the model *)

MaxEmp == 3        \* at most this many employees
MaxAbs == 2        \* at most this many absence rows
WorkDays == 2      \* days 1..WorkDays of a month are assignable, the rest are non-working festivities
GenCalls == 1      \* handler calls in one behaviour of SpecGen
FairDays == 5      \* assignable days of the month in SpecFair
StoreCalls == 4    \* handler calls in one behaviour of Spec
RepairCalls == 4   \* handler calls in one behaviour of SpecRepair
StatsCalls == 4    \* handler calls in one behaviour of SpecStats

----------------------------------------------------------------------------
(* Program constants *)

shift_types == <<"Morning", "Afternoon", "Night">>
ShiftSet == {shift_types[i] : i \in 1..Len(shift_types)}

DefaultPreference == 1      \* preferences.get(shift, 1)
DefaultDuration == 8        \* shift_durations.get(shift, 8)
DefaultStaffing == 0        \* staffing.get(shift, 0)
OverAssignedThreshold == 5  \* remaining < -5
PreferenceWeight == 10      \* score = remaining + preference * 10

NoCandidate == 0            \* candidate = None (employee ids start at 1)
NoSnapshot == "NoSnapshot"  \* get_schedule finds no row

\* A text is a sequence of characters; the characters 0..9 are the digits and any
\* larger number is some other character.  None (no row) is the empty text here:
\* int() fails on both.
None == <<>>
IsDigit(c) == c \in 0..9
RECURSIVE str(_)
\* str(n) for n >= 0: the decimal digits
str(n) == IF n < 10 THEN <<n>> ELSE Append(str(n \div 10), n % 10)
\* int(text) raises unless the text is a non-empty run of digits
int_ok(text) == Len(text) > 0 /\ \A i \in 1..Len(text) : IsDigit(text[i])
RECURSIVE int(_)
int(text) == IF Len(text) = 0 THEN 0
             ELSE int(SubSeq(text, 1, Len(text) - 1)) * 10 + text[Len(text)]
\* a text typed into the settings form that is not a number ("abc")
NotANumber == <<10, 11, 12>>

\* datetime.date.today()
today == <<2025, 1, 10>>
\* the months the navigation arrows are followed to
Months == {<<2024, 12>>, <<2025, 1>>}

----------------------------------------------------------------------------
(* Dates and the calendar *)

strftime(d) == d[1] * 10000 + d[2] * 100 + d[3]
strptime(s) == <<s \div 10000, (s \div 100) % 100, s % 100>>

\* datetime.date comparison
DateLE(a, b) ==
    \/ a[1] < b[1]
    \/ a[1] = b[1] /\ a[2] < b[2]
    \/ a[1] = b[1] /\ a[2] = b[2] /\ a[3] <= b[3]
DateLT(a, b) == DateLE(a, b) /\ a # b

IsLeap(y) == (y % 4 = 0) /\ ((y % 100 # 0) \/ (y % 400 = 0))
DaysBeforeYear(y) == (y - 1) * 365 + ((y - 1) \div 4) - ((y - 1) \div 100) + ((y - 1) \div 400)
MonthLengths(y) == <<31, IF IsLeap(y) THEN 29 ELSE 28, 31, 30, 31, 30, 31, 31, 30, 31, 30, 31>>
RECURSIVE DaysBeforeMonth(_, _)
DaysBeforeMonth(y, m) == IF m = 1 THEN 0 ELSE DaysBeforeMonth(y, m - 1) + MonthLengths(y)[m - 1]
\* datetime.date.toordinal
toordinal(d) == DaysBeforeYear(d[1]) + DaysBeforeMonth(d[1], d[2]) + d[3]

\* datetime.MINYEAR, datetime.MAXYEAR: the years datetime.date accepts
MINYEAR == 1
MAXYEAR == 9999
\* datetime.date(y, m, d) returns a date; it raises ValueError otherwise
date_ok(d) ==
    /\ d[1] \in MINYEAR..MAXYEAR
    /\ d[2] \in 1..12
    /\ d[3] \in 1..MonthLengths(d[1])[d[2]]

\* mutation: December is followed by January of the same year
next_month_first_same_year(year, month) ==
    IF month = 12 THEN <<year, 1, 1>> ELSE <<year, month + 1, 1>>
\* first day of the month after (year, month)
next_month_first(year, month) ==
    IF month = 12 THEN <<year + 1, 1, 1>> ELSE <<year, month + 1, 1>>
\* days = (next_month - first_day).days
days_in_month(year, month) ==
    toordinal(next_month_first(year, month)) - toordinal(<<year, month, 1>>)

\* the half-open range of date texts [start_date, end_date) of a month
month_start_str(year, month) == strftime(<<year, month, 1>>)
month_end_str(year, month) == strftime(next_month_first(year, month))
InMonth(date_str, year, month) ==
    date_str >= month_start_str(year, month) /\ date_str < month_end_str(year, month)

----------------------------------------------------------------------------
(* DatabaseManager queries *)

Put(f, k, v) == [x \in (DOMAIN f) \cup {k} |-> IF x = k THEN v ELSE f[x]]
Remove(seq, i) == SubSeq(seq, 1, i - 1) \o SubSeq(seq, i + 1, Len(seq))
RECURSIVE Repeat(_, _)
Repeat(x, n) == IF n <= 0 THEN <<>> ELSE <<x>> \o Repeat(x, n - 1)

\* get_setting: the stored text, or None when the key has no row
get_setting(key) == IF key \in DOMAIN settings THEN settings[key] ELSE None
staffing_key(shift) ==
    CASE shift = "Morning" -> "staffing_morning"
      [] shift = "Afternoon" -> "staffing_afternoon"
      [] shift = "Night" -> "staffing_night"
duration_key(shift) ==
    CASE shift = "Morning" -> "duration_morning"
      [] shift = "Afternoon" -> "duration_afternoon"
      [] shift = "Night" -> "duration_night"
\* the dicts staffing and shift_durations, once every int() has succeeded
staffing(shift) == IF shift \in ShiftSet THEN int(get_setting(staffing_key(shift))) ELSE DefaultStaffing
shift_durations(shift) == IF shift \in ShiftSet THEN int(get_setting(duration_key(shift))) ELSE DefaultDuration
staffing_ok == \A s \in ShiftSet : int_ok(get_setting(staffing_key(s)))
durations_ok == \A s \in ShiftSet : int_ok(get_setting(duration_key(s)))

\* get_shifts_for_month: rows of the month, JOINed with employees
EmployeeIds == {employees[i].id : i \in 1..Len(employees)}
EmployeeById(id) == employees[CHOOSE i \in 1..Len(employees) : employees[i].id = id]
shifts_in_month(tbl, year, month) ==
    SelectSeq(tbl, LAMBDA r : InMonth(r.shift_date, year, month))
\* the place of a shift type in the order of the texts: "Afternoon" < "Morning" < "Night"
shift_type_rank(t) == CASE t = "Afternoon" -> 1 [] t = "Morning" -> 2 [] t = "Night" -> 3
RECURSIVE order_by_date_type(_)
\* ORDER BY s.shift_date, s.shift_type (rows with equal keys stay in id order)
order_by_date_type(rows) ==
    IF rows = <<>> THEN <<>>
    ELSE LET before(a, b) == \/ a.shift_date < b.shift_date
                             \/ /\ a.shift_date = b.shift_date
                                /\ shift_type_rank(a.shift_type) < shift_type_rank(b.shift_type)
             i == CHOOSE k \in 1..Len(rows) :
                      /\ \A j \in 1..Len(rows) : ~before(rows[j], rows[k])
                      /\ \A j \in 1..(k - 1) : before(rows[k], rows[j])
         IN <<rows[i]>> \o order_by_date_type(Remove(rows, i))
get_shifts_for_month(year, month) ==
    order_by_date_type(SelectSeq(shifts, LAMBDA r : /\ InMonth(r.shift_date, year, month)
                                                    /\ r.employee_id \in EmployeeIds))
\* mutation: the end of the range is included (shift_date <= end_date)
clear_shifts_through_end_date(tbl, year, month) ==
    SelectSeq(tbl, LAMBDA r : ~(/\ r.shift_date >= month_start_str(year, month)
                                /\ r.shift_date <= month_end_str(year, month)))
\* clear_shifts_for_month: DELETE the rows of the month
clear_shifts_for_month(tbl, year, month) ==
    SelectSeq(tbl, LAMBDA r : ~InMonth(r.shift_date, year, month))

\* get_absences_for_month: rows overlapping the month, dates parsed
get_absences_for_month(year, month) ==
    {[employee_id |-> a.employee_id,
      start_date |-> strptime(a.start_date),
      end_date |-> strptime(a.end_date)] :
        a \in {r \in absences : r.start_date < month_end_str(year, month)
                                /\ r.end_date >= month_start_str(year, month)}}

\* get_festivities_for_month: {date text: is_working_day} of the month
get_festivities_for_month(year, month) ==
    [d \in {x \in DOMAIN festivities : InMonth(x, year, month)} |-> festivities[d]]

\* get_schedule
get_schedule(year, month) ==
    IF <<year, month>> \in DOMAIN schedules THEN schedules[<<year, month>>] ELSE NoSnapshot

----------------------------------------------------------------------------
(* The hour ledger and the candidate order *)

\* mutation: the end date of an absence is not part of it
is_employee_absent_end_excluded(emp_id, date_obj, year, month) ==
    \E a \in get_absences_for_month(year, month) :
        /\ a.employee_id = emp_id
        /\ DateLE(a.start_date, date_obj)
        /\ DateLT(date_obj, a.end_date)
\* generation, lines 608-619: start <= date <= end for one of the employee's rows
is_employee_absent(emp_id, date_obj, year, month) ==
    \E a \in get_absences_for_month(year, month) :
        /\ a.employee_id = emp_id
        /\ DateLE(a.start_date, date_obj)
        /\ DateLE(date_obj, a.end_date)

\* repair, lines 773-777: absences_by_emp[emp_id] = [(start_date, end_date), ...]
absences_by_emp(emp_id, year, month) ==
    {<<a.start_date, a.end_date>> :
        a \in {r \in get_absences_for_month(year, month) : r.employee_id = emp_id}}
\* repair, lines 778-784: start <= date_obj <= end for one of the employee's pairs
is_absent(emp_id, date_obj, year, month) ==
    \E iv \in absences_by_emp(emp_id, year, month) :
        DateLE(iv[1], date_obj) /\ DateLE(date_obj, iv[2])

\* e.preferences.get(shift, 1)
preference(e, shift) ==
    IF shift \in DOMAIN e.preferences THEN e.preferences[shift] ELSE DefaultPreference

\* mutation: the hours assigned so far are not subtracted
remaining_hours_unassigned(e, ah) == e.target_hours - e.accumulated_hours
\* Emp.remaining_hours
remaining_hours(e, ah) == (e.target_hours - e.accumulated_hours) - ah[e.id]

\* mutation: the two components of the key swapped
sort_key_hours_first(e, shift, ah) == <<remaining_hours(e, ah), preference(e, shift)>>
\* sort_key(e) = (pref, e.remaining_hours())
sort_key(e, shift, ah) == <<preference(e, shift), remaining_hours(e, ah)>>
\* Python's order on pairs
KeyLess(a, b) == a[1] < b[1] \/ (a[1] = b[1] /\ a[2] < b[2])

\* the index sorted(..., reverse=True) puts first: the earliest entry with a maximal key
first_max(seq, shift, ah) ==
    CHOOSE i \in 1..Len(seq) :
        /\ \A j \in 1..Len(seq) : ~KeyLess(sort_key(seq[i], shift, ah), sort_key(seq[j], shift, ah))
        /\ \A j \in 1..(i - 1) : KeyLess(sort_key(seq[j], shift, ah), sort_key(seq[i], shift, ah))

\* sorted(eligible, key=sort_key, reverse=True): descending, equal keys keep their order
RECURSIVE sorted_candidates(_, _, _)
sorted_candidates(seq, shift, ah) ==
    IF seq = <<>> THEN <<>>
    ELSE LET i == first_max(seq, shift, ah)
         IN <<seq[i]>> \o sorted_candidates(Remove(seq, i), shift, ah)

\* mutation: the absences are not looked at
eligible_everybody(date_obj, year, month) == employees
\* mutation: an employee with a shift row on the date is not eligible for another
eligible_once_a_day(date_obj, year, month) ==
    SelectSeq(employees, LAMBDA e :
        /\ ~is_employee_absent(e.id, date_obj, year, month)
        /\ \A i \in 1..Len(shifts) :
               shifts[i].shift_date = strftime(date_obj) => shifts[i].employee_id # e.id)
\* eligible = [e for e in employees if not is_employee_absent(e.id, current_date)]
eligible(date_obj, year, month) ==
    SelectSeq(employees, LAMBDA e : ~is_employee_absent(e.id, date_obj, year, month))

\* mutation: no padding when there are fewer candidates than needed
assigned_list_unpadded(sorted, needed) ==
    IF Len(sorted) < needed THEN sorted ELSE SubSeq(sorted, 1, needed)
\* mutation: the padding repeats the last candidate instead of the first
assigned_list_pad_last(sorted, needed) ==
    IF Len(sorted) < needed
    THEN sorted \o Repeat(sorted[Len(sorted)], needed - Len(sorted))
    ELSE SubSeq(sorted, 1, needed)
\* the list assigned of one slot (lines 682-688)
assigned_list(sorted, needed) ==
    IF Len(sorted) < needed
    THEN sorted \o Repeat(sorted[1], needed - Len(sorted))
    ELSE SubSeq(sorted, 1, needed)

----------------------------------------------------------------------------
(* ScheduleTab.generate_schedule *)

year_of(d) == d[1]
month_of(d) == d[2]
EmptyDict == [x \in {} |-> 0]
Handler(name) == [name |-> name, year |-> year_of(current_date), month |-> month_of(current_date)]

\* the handler returns: its locals are gone
ResetLocals ==
    /\ day' = 0 /\ shift_idx' = 0 /\ rec_idx' = 0
    /\ assigned_hours' = EmptyDict /\ schedule' = EmptyDict /\ warnings_list' = <<>>
    /\ changes' = 0 /\ assigned_ids' = <<>> /\ new_assignments' = <<>>

\* mutation: no date is skipped
non_working_never(date_str, year, month) == FALSE
\* mutation: every festivity row counts as non-working
non_working_any_festivity(date_str, year, month) ==
    date_str \in DOMAIN festivities /\ InMonth(date_str, year, month)
\* festivities[date_str] == False: a non-working festivity
\* (date_str is a key of get_festivities_for_month's dict iff it has a row and lies in the month)
non_working(date_str, year, month) ==
    /\ date_str \in DOMAIN festivities
    /\ InMonth(date_str, year, month)
    /\ festivities[date_str] = FALSE

\* the day loop's "continue" over a run of non-working festivities starting at d
RECURSIVE skip_non_working(_, _, _)
skip_non_working(d, year, month) ==
    IF d > days_in_month(year, month) \/ ~non_working(strftime(<<year, month, d>>), year, month)
    THEN d
    ELSE skip_non_working(d + 1, year, month)

\* number of times id occurs in a list of employees
\* mutation: an employee listed several times in a slot is counted once
Occurrences_once(list, id) == IF \E i \in 1..Len(list) : list[i].id = id THEN 1 ELSE 0
\* the number of entries of the list that are the employee
Occurrences(list, id) == Cardinality({i \in 1..Len(list) : list[i].id = id})

\* the rows add_shift inserts for one slot
new_shift_rows(list, date_str, shift, first_id) ==
    [i \in 1..Len(list) |->
        [id |-> first_id + i - 1, shift_date |-> date_str, shift_type |-> shift,
         employee_id |-> list[i].id]]

\* lines 579-605, 637-649: clear the month's shift rows, load, set up the loop
generate_schedule_begin ==
    /\ pc = "idle"
    /\ budget > 0
    /\ budget' = budget - 1
    /\ LET year == year_of(current_date)
           month == month_of(current_date)
       IN /\ shifts' = clear_shifts_for_month(shifts, year, month)
          /\ pre' = [shifts |-> shifts, schedules |-> schedules]
          /\ IF employees = <<>>
             THEN /\ message' = <<"showwarning", "No Employees">>
                  /\ history' = Append(history, Handler("generate"))
                  /\ UNCHANGED <<pc, localVars>>
             ELSE IF ~(staffing_ok /\ durations_ok)
             THEN /\ message' = <<"showerror", "Error">>
                  /\ history' = Append(history, Handler("generate"))
                  /\ UNCHANGED <<pc, localVars>>
             ELSE IF ~date_ok(next_month_first(year, month))
             THEN /\ message' = <<"showerror", "Error">>
                  /\ history' = Append(history, Handler("generate"))
                  /\ UNCHANGED <<pc, localVars>>
             ELSE /\ pc' = "gen"
                  /\ day' = 1
                  /\ shift_idx' = 1
                  /\ assigned_hours' = [id \in EmployeeIds |-> 0]
                  /\ schedule' = EmptyDict
                  /\ warnings_list' = <<>>
                  /\ UNCHANGED <<message, history, rec_idx, changes, assigned_ids, new_assignments>>
    /\ UNCHANGED <<employees, settings, absences, festivities, next_shift_id, schedules, current_date>>
    /\ UNCHANGED statsVars

\* lines 651-699: one pass of the loop body: a run of non-working days, or one slot
generate_schedule_step ==
    /\ pc = "gen"
    /\ LET year == year_of(current_date)
           month == month_of(current_date)
           current == <<year, month, day>>
           date_str == strftime(current)
           shift == shift_types[shift_idx]
           needed == staffing(shift)
           elig == eligible(current, year, month)
           sorted == sorted_candidates(elig, shift, assigned_hours)
           assigned == assigned_list(sorted, needed)
           day_dict == IF shift_idx = 1 THEN EmptyDict ELSE schedule[date_str]
           next_day == skip_non_working(day, year, month)
       IN /\ day <= days_in_month(year, month)
          /\ IF shift_idx = 1 /\ non_working(date_str, year, month)
             THEN /\ schedule' = [d \in (DOMAIN schedule)
                                        \cup {strftime(<<year, month, k>>) : k \in day..(next_day - 1)} |->
                                    IF d \in DOMAIN schedule THEN schedule[d] ELSE EmptyDict]
                  /\ day' = next_day
                  /\ UNCHANGED <<shift_idx, shifts, next_shift_id, assigned_hours, warnings_list>>
             ELSE /\ IF elig = <<>>
                     THEN /\ warnings_list' = Append(warnings_list,
                                 [kind |-> "no_eligible", shift |-> shift, date |-> date_str])
                          /\ schedule' = Put(schedule, date_str, Put(day_dict, shift, <<>>))
                          /\ UNCHANGED <<shifts, next_shift_id, assigned_hours>>
                     ELSE /\ warnings_list' =
                                 IF Len(sorted) < needed
                                 THEN Append(warnings_list,
                                         [kind |-> "not_enough", shift |-> shift, date |-> date_str])
                                 ELSE warnings_list
                          /\ assigned_hours' =
                                 [id \in DOMAIN assigned_hours |->
                                     assigned_hours[id] + shift_durations(shift) * Occurrences(assigned, id)]
                          /\ shifts' = shifts \o new_shift_rows(assigned, date_str, shift, next_shift_id)
                          /\ next_shift_id' = next_shift_id + Len(assigned)
                          /\ schedule' = Put(schedule, date_str,
                                 Put(day_dict, shift, [i \in 1..Len(assigned) |-> assigned[i].name]))
                  /\ IF shift_idx < Len(shift_types)
                     THEN shift_idx' = shift_idx + 1 /\ day' = day
                     ELSE shift_idx' = 1 /\ day' = day + 1
    /\ UNCHANGED <<employees, settings, absences, festivities, schedules, current_date, message,
                   pc, rec_idx, changes, assigned_ids, new_assignments, pre, history, budget>>
    /\ UNCHANGED statsVars

\* lines 701-730: show the roster and the warnings, save the snapshot
generate_schedule_finish ==
    /\ pc = "gen"
    /\ LET year == year_of(current_date)
           month == month_of(current_date)
       IN /\ day > days_in_month(year, month)
          /\ message' = IF warnings_list # <<>>
                        THEN <<"showwarning", "Warning", warnings_list>>
                        ELSE <<"showinfo", "Success">>
          /\ schedules' = Put(schedules, <<year, month>>, schedule)
    /\ pc' = "idle"
    /\ history' = Append(history, Handler("generate"))
    /\ ResetLocals
    /\ UNCHANGED <<employees, settings, absences, festivities, shifts, next_shift_id,
                   current_date, pre, budget>>
    /\ UNCHANGED statsVars

----------------------------------------------------------------------------
(* DatabaseManager.update_employee_statistics and ScheduleTab.clear_schedule *)

RECURSIVE SumOver(_, _)
\* the sum of f[x] over the finite set S
SumOver(S, f) ==
    IF S = {} THEN 0
    ELSE LET x == CHOOSE y \in S : TRUE IN f[x] + SumOver(S \ {x}, f)

\* worked[(employee_id, year, month)]: hours of the rows dated on or before today
worked(tbl, emp_id, year, month) ==
    LET rows == SelectSeq(tbl, LAMBDA r : /\ r.shift_date <= strftime(today)
                                          /\ r.employee_id = emp_id
                                          /\ year_of(strptime(r.shift_date)) = year
                                          /\ month_of(strptime(r.shift_date)) = month)
    IN SumOver(1..Len(rows), [i \in 1..Len(rows) |-> shift_durations(rows[i].shift_type)])
\* the keys of worked that belong to the employee
worked_months(tbl, emp_id) ==
    {<<year_of(strptime(tbl[i].shift_date)), month_of(strptime(tbl[i].shift_date))>> :
        i \in {j \in 1..Len(tbl) : tbl[j].shift_date <= strftime(today) /\ tbl[j].employee_id = emp_id}}
\* last_day_of_month < today
month_complete(year, month) ==
    toordinal(next_month_first(year, month)) - 1 < toordinal(today)
\* the months that add to extra_hours_by_emp[emp_id]
surplus_months(tbl, e) ==
    {ym \in worked_months(tbl, e.id) :
        month_complete(ym[1], ym[2]) /\ worked(tbl, e.id, ym[1], ym[2]) - e.target_hours > 0}
\* mutation: the surplus is added to the stored value
update_employee_statistics_incremental(tbl, emps) ==
    [i \in 1..Len(emps) |->
        LET e == emps[i]
            months == surplus_months(tbl, e)
        IN [e EXCEPT !.accumulated_hours =
               @ + SumOver(months, [ym \in months |->
                       worked(tbl, e.id, ym[1], ym[2]) - e.target_hours])]]
\* the employees table after update_employee_statistics
update_employee_statistics(tbl, emps) ==
    [i \in 1..Len(emps) |->
        LET e == emps[i]
            months == surplus_months(tbl, e)
        IN IF months = {} THEN e
           ELSE [e EXCEPT !.accumulated_hours =
                    SumOver(months, [ym \in months |->
                        worked(tbl, e.id, ym[1], ym[2]) - e.target_hours])]]

\* lines 554-576; int() of a non-numeric duration raises out of update_employee_statistics,
\* after both deletes were committed
clear_schedule ==
    /\ pc = "idle"
    /\ budget > 0
    /\ budget' = budget - 1
    /\ LET year == year_of(current_date)
           month == month_of(current_date)
           cleared == clear_shifts_for_month(shifts, year, month)
       IN /\ shifts' = cleared
          /\ schedules' = [k \in (DOMAIN schedules) \ {<<year, month>>} |-> schedules[k]]
          /\ IF durations_ok
             THEN /\ employees' = update_employee_statistics(cleared, employees)
                  /\ message' = <<"showinfo", "Success">>
             ELSE /\ employees' = employees
                  /\ message' = <<"exception", "ValueError">>
    /\ pre' = [shifts |-> shifts, schedules |-> schedules]
    /\ history' = Append(history, Handler("clear"))
    /\ UNCHANGED <<settings, absences, festivities, next_shift_id, current_date, pc, localVars>>
    /\ UNCHANGED statsVars

----------------------------------------------------------------------------
(* StatsTab *)

\* mutation: a date with any festivity row counts as festive
is_festive_any_override(shift_date, festivity_map) == shift_date \in DOMAIN festivity_map
\* lines 1578-1581: festive iff the date has a row with is_working_day false
is_festive(shift_date, festivity_map) ==
    shift_date \in DOMAIN festivity_map /\ ~festivity_map[shift_date]

\* the keys of stats in insertion order: the employees of the rows by first appearance
\* (lines 1555-1566), then the other employees in table order (lines 1590-1601)
stats_order(rows, emps) ==
    LET firsts == SelectSeq([i \in 1..Len(rows) |->
                                IF \A j \in 1..(i - 1) : rows[j].employee_id # rows[i].employee_id
                                THEN rows[i].employee_id ELSE NoCandidate],
                            LAMBDA id : id # NoCandidate)
        others == SelectSeq([i \in 1..Len(emps) |-> emps[i].id],
                            LAMBDA id : \A j \in 1..Len(rows) : rows[j].employee_id # id)
    IN firsts \o others
\* the row of one employee (lines 1557-1588, 1592-1600)
stats_row(emp, rows, festivity_map) ==
    LET mine(festive) == SelectSeq(rows, LAMBDA r :
                             /\ r.employee_id = emp.id
                             /\ is_festive(r.shift_date, festivity_map) = festive)
        hours(seq) == SumOver(1..Len(seq), [i \in 1..Len(seq) |-> shift_durations(seq[i].shift_type)])
    IN [name |-> emp.name,
        normal_shifts |-> Len(mine(FALSE)), normal_hours |-> hours(mine(FALSE)),
        fest_shifts |-> Len(mine(TRUE)), fest_hours |-> hours(mine(TRUE)),
        target |-> emp.target_hours, accumulated |-> emp.accumulated_hours]

\* lines 1537-1604; int() of a non-numeric duration raises out of
\* update_employee_statistics before anything is written or shown
show_stats ==
    /\ pc = "idle"
    /\ budget > 0
    /\ budget' = budget - 1
    /\ IF durations_ok
       THEN LET emps == update_employee_statistics(shifts, employees)
                rows == get_shifts_for_month(year_of(stats_date), month_of(stats_date))
                festivity_map == get_festivities_for_month(year_of(stats_date), month_of(stats_date))
                order == stats_order(rows, emps)
                by_id(id) == emps[CHOOSE i \in 1..Len(emps) : emps[i].id = id]
            IN /\ employees' = emps
               /\ tree' = [i \in 1..Len(order) |-> stats_row(by_id(order[i]), rows, festivity_map)]
               /\ UNCHANGED message
       ELSE /\ message' = <<"exception", "ValueError">>
            /\ UNCHANGED <<employees, tree>>
    /\ history' = Append(history, Handler("show_stats"))
    /\ UNCHANGED <<settings, absences, festivities, shifts, next_shift_id, schedules,
                   current_date, pc, localVars, pre, stats_date>>

\* StatsTab.prev_month, lines 1509-1521
stats_prev_month ==
    /\ pc = "idle"
    /\ budget > 0
    /\ budget' = budget - 1
    /\ LET year == year_of(stats_date)
           month == month_of(stats_date)
           new == IF month = 1 THEN <<year - 1, 12, 1>> ELSE <<year, month - 1, 1>>
       IN /\ <<new[1], new[2]>> \in Months
          /\ stats_date' = new
    /\ history' = Append(history, Handler("stats_prev_month"))
    /\ UNCHANGED <<dbVars, current_date, message, pc, localVars, pre, tree>>

\* StatsTab.next_month, lines 1523-1535
stats_next_month ==
    /\ pc = "idle"
    /\ budget > 0
    /\ budget' = budget - 1
    /\ LET year == year_of(stats_date)
           month == month_of(stats_date)
           new == IF month = 12 THEN <<year + 1, 1, 1>> ELSE <<year, month + 1, 1>>
       IN /\ <<new[1], new[2]>> \in Months
          /\ stats_date' = new
    /\ history' = Append(history, Handler("stats_next_month"))
    /\ UNCHANGED <<dbVars, current_date, message, pc, localVars, pre, tree>>

\* FestivitiesTab.add_festivity for a date that has no row yet
add_festivity(date_str, is_working_day) ==
    /\ pc = "idle"
    /\ budget > 0
    /\ budget' = budget - 1
    /\ date_str \notin DOMAIN festivities
    /\ festivities' = Put(festivities, date_str, is_working_day)
    /\ history' = Append(history, Handler("add_festivity"))
    /\ UNCHANGED <<employees, settings, absences, shifts, next_shift_id, schedules,
                   current_date, message, pc, localVars, pre, statsVars>>

\* FestivitiesTab.edit_festivity of the row of a date, the date kept
edit_festivity(date_str, is_working_day) ==
    /\ pc = "idle"
    /\ budget > 0
    /\ budget' = budget - 1
    /\ date_str \in DOMAIN festivities
    /\ festivities[date_str] # is_working_day
    /\ festivities' = [festivities EXCEPT ![date_str] = is_working_day]
    /\ history' = Append(history, Handler("edit_festivity"))
    /\ UNCHANGED <<employees, settings, absences, shifts, next_shift_id, schedules,
                   current_date, message, pc, localVars, pre, statsVars>>

----------------------------------------------------------------------------
(* Month navigation, the settings form, the absence form *)

\* an item of a saved list is a text: an employee name <<"name", id>>, and not the
\* three-item list that json makes of a (shift_id, emp_id, emp_name) tuple
is_str(item) == Len(item) = 2
\* load_saved_schedule, lines 1024-1047: "cleared" when get_schedule returns nothing or
\* an empty dict, "TypeError" when ", ".join meets an item that is not a text, "shown"
\* when the rows are put on the sheet
load_saved_schedule(year, month) ==
    LET snap == get_schedule(year, month)
    IN IF <<year, month>> \notin DOMAIN schedules THEN "cleared"
       ELSE IF DOMAIN snap = {} THEN "cleared"
       ELSE IF \A d \in DOMAIN snap : \A t \in DOMAIN snap[d] :
                  \A i \in 1..Len(snap[d][t]) : is_str(snap[d][t][i])
            THEN "shown" ELSE "TypeError"

\* lines 1057-1072
prev_month ==
    /\ pc = "idle"
    /\ budget > 0
    /\ budget' = budget - 1
    /\ LET year == year_of(current_date)
           month == month_of(current_date)
           new == IF month = 1 THEN <<year - 1, 12, 1>> ELSE <<year, month - 1, 1>>
       IN /\ <<new[1], new[2]>> \in Months
          /\ current_date' = new
          /\ message' = IF load_saved_schedule(new[1], new[2]) = "TypeError"
                        THEN <<"exception", "TypeError">> ELSE message
    /\ history' = Append(history, Handler("prev_month"))
    /\ UNCHANGED <<dbVars, pc, localVars, pre>>
    /\ UNCHANGED statsVars

\* lines 1074-1089
next_month ==
    /\ pc = "idle"
    /\ budget > 0
    /\ budget' = budget - 1
    /\ LET year == year_of(current_date)
           month == month_of(current_date)
           new == IF month = 12 THEN <<year + 1, 1, 1>> ELSE <<year, month + 1, 1>>
       IN /\ <<new[1], new[2]>> \in Months
          /\ current_date' = new
          /\ message' = IF load_saved_schedule(new[1], new[2]) = "TypeError"
                        THEN <<"exception", "TypeError">> ELSE message
    /\ history' = Append(history, Handler("next_month"))
    /\ UNCHANGED <<dbVars, pc, localVars, pre>>
    /\ UNCHANGED statsVars

\* SettingsTab.save_settings with every entry non-empty: each key is overwritten
save_settings(sett) ==
    /\ pc = "idle"
    /\ budget > 0
    /\ budget' = budget - 1
    /\ sett # settings
    /\ settings' = sett
    /\ message' = <<"showinfo", "Settings Updated">>
    /\ history' = Append(history, Handler("save_settings"))
    /\ UNCHANGED <<employees, absences, festivities, shifts, next_shift_id, schedules,
                   current_date, pc, localVars, pre>>
    /\ UNCHANGED statsVars

\* AbsenceDialog.on_ok -> add_absence
add_absence(row) ==
    /\ pc = "idle"
    /\ budget > 0
    /\ budget' = budget - 1
    /\ Cardinality(absences) < MaxAbs
    /\ row \notin absences
    /\ absences' = absences \cup {row}
    /\ history' = Append(history, Handler("add_absence"))
    /\ UNCHANGED <<employees, settings, festivities, shifts, next_shift_id, schedules,
                   current_date, message, pc, localVars, pre>>
    /\ UNCHANGED statsVars

----------------------------------------------------------------------------
(* ScheduleTab.update_schedule *)

\* self.year_var.get(), self.month_var.get(): the month selected for the repair.
\* (ScheduleTab.__init__ sets only current_date; the repair is modelled on the month shown.)
year_var == year_of(current_date)
month_var == month_of(current_date)

\* schedule: {date_str: {shift_type: [(shift_id, emp_id, emp_name), ...]}} (lines 742-745)
build_schedule(rows) ==
    LET dates == {rows[i].shift_date : i \in 1..Len(rows)}
        types(d) == {rows[i].shift_type : i \in {j \in 1..Len(rows) : rows[j].shift_date = d}}
        slot(d, t) == SelectSeq(rows, LAMBDA r : r.shift_date = d /\ r.shift_type = t)
    IN [d \in dates |-> [t \in types(d) |->
            [i \in 1..Len(slot(d, t)) |->
                <<slot(d, t)[i].id, slot(d, t)[i].employee_id,
                  EmployeeById(slot(d, t)[i].employee_id).name>>]]]

\* mutation: the ledger of the repair starts empty
current_assigned_hours_zero(rows) == [id \in EmployeeIds |-> 0]
\* emp_map[..]["assigned_hours"] after lines 766-771
current_assigned_hours(rows) ==
    [id \in EmployeeIds |->
        LET mine == SelectSeq(rows, LAMBDA r : r.employee_id = id)
        IN SumOver(1..Len(mine), [i \in 1..Len(mine) |-> shift_durations(mine[i].shift_type)])]

\* the slot has records: date_str in schedule and shift in schedule[date_str]
has_slot(sched, year, month, d, si) ==
    /\ strftime(<<year, month, d>>) \in DOMAIN sched
    /\ shift_types[si] \in DOMAIN sched[strftime(<<year, month, d>>)]
\* mutation: the scan goes back to the first slot with records of the month
next_slot_rescan(sched, year, month, d, si) ==
    LET later == {p \in (1..days_in_month(year, month)) \X (1..Len(shift_types)) :
                     has_slot(sched, year, month, p[1], p[2])}
    IN IF later = {} THEN <<days_in_month(year, month) + 1, 1>>
       ELSE CHOOSE p \in later : \A q \in later : p[1] < q[1] \/ (p[1] = q[1] /\ p[2] <= q[2])
\* the first slot with records at or after (d, si) in loop order, <<days + 1, 1>> if none
next_slot(sched, year, month, d, si) ==
    LET later == {p \in (1..days_in_month(year, month)) \X (1..Len(shift_types)) :
                     /\ p[1] > d \/ (p[1] = d /\ p[2] >= si)
                     /\ has_slot(sched, year, month, p[1], p[2])}
    IN IF later = {} THEN <<days_in_month(year, month) + 1, 1>>
       ELSE CHOOSE p \in later : \A q \in later : p[1] < q[1] \/ (p[1] = q[1] /\ p[2] <= q[2])
\* assigned_ids = [rec[1] for rec in schedule[date_str][shift]]
slot_assigned_ids(sched, year, month, pos) ==
    IF pos[1] > days_in_month(year, month) THEN <<>>
    ELSE LET recs == sched[strftime(<<year, month, pos[1]>>)][shift_types[pos[2]]]
         IN [i \in 1..Len(recs) |-> recs[i][2]]

\* the employee the scan settles on: the first one in table order with the largest value
\* among the rows ok of the employee table, NoCandidate when no row qualifies
first_best(ok, value) ==
    IF ok = {} THEN NoCandidate
    ELSE employees[CHOOSE i \in ok :
             /\ \A j \in ok : value[j] <= value[i]
             /\ \A j \in ok : j < i => value[j] < value[i]].id

\* mutation: the replaced employee keeps the hours
moved_hours_not_debited(ah, from, to, hours) == [ah EXCEPT ![to] = @ + hours]
\* lines 832-833, 874-875: the shift's hours move from one employee to the other
moved_hours(ah, from, to, hours) == [[ah EXCEPT ![from] = @ - hours] EXCEPT ![to] = @ + hours]

\* mutation: the scan does not skip the employees already assigned on the slot
pass1_candidate_any_present(date_obj, shift, ids, ah, year, month) ==
    first_best({k \in 1..Len(employees) :
                   ~is_absent(employees[k].id, date_obj, year, month)},
               [k \in 1..Len(employees) |->
                   remaining_hours(employees[k], ah)
                   + preference(employees[k], shift) * PreferenceWeight])
\* mutation: an employee without hours left is not a candidate
pass1_candidate_hours_left(date_obj, shift, ids, ah, year, month) ==
    first_best({k \in 1..Len(employees) :
                   /\ ~is_absent(employees[k].id, date_obj, year, month)
                   /\ \A i \in 1..Len(ids) : ids[i] # employees[k].id
                   /\ remaining_hours(employees[k], ah) > 0},
               [k \in 1..Len(employees) |->
                   remaining_hours(employees[k], ah)
                   + preference(employees[k], shift) * PreferenceWeight])
\* pass 1, lines 810-825: score = remaining + preference * 10, first maximum wins
pass1_candidate(date_obj, shift, ids, ah, year, month) ==
    first_best({k \in 1..Len(employees) :
                   /\ ~is_absent(employees[k].id, date_obj, year, month)
                   /\ \A i \in 1..Len(ids) : ids[i] # employees[k].id},
               [k \in 1..Len(employees) |->
                   remaining_hours(employees[k], ah)
                   + preference(employees[k], shift) * PreferenceWeight])

\* pass 2, lines 859-869: largest remaining hours above 0, first maximum wins
pass2_candidate(date_obj, shift, ids, ah, year, month) ==
    first_best({k \in 1..Len(employees) :
                   /\ ~is_absent(employees[k].id, date_obj, year, month)
                   /\ \A i \in 1..Len(ids) : ids[i] # employees[k].id
                   /\ remaining_hours(employees[k], ah) > 0},
               [k \in 1..Len(employees) |-> remaining_hours(employees[k], ah)])

\* mutation: the row is deleted and inserted again at the end of the table
update_shift_assignment_reinsert(tbl, shift_id, employee_id) ==
    LET i == CHOOSE j \in 1..Len(tbl) : tbl[j].id = shift_id
    IN Append(Remove(tbl, i), [tbl[i] EXCEPT !.employee_id = employee_id])
\* UPDATE shifts SET employee_id = ? WHERE id = ?
update_shift_assignment(tbl, shift_id, employee_id) ==
    [i \in 1..Len(tbl) |->
        IF tbl[i].id = shift_id THEN [tbl[i] EXCEPT !.employee_id = employee_id] ELSE tbl[i]]

\* lines 736-793: load the month's records and the ledger
update_schedule_begin ==
    /\ pc = "idle"
    /\ budget > 0
    /\ budget' = budget - 1
    /\ pre' = [shifts |-> shifts, schedules |-> schedules]
    /\ IF ~durations_ok \/ ~date_ok(next_month_first(year_var, month_var))
       THEN /\ message' = <<"showerror", "Error">>
            /\ history' = Append(history, Handler("update"))
            /\ UNCHANGED <<pc, localVars>>
       ELSE LET rows == get_shifts_for_month(year_var, month_var)
                sched == build_schedule(rows)
                first == next_slot(sched, year_var, month_var, 1, 1)
            IN /\ pc' = "pass1"
               /\ schedule' = sched
               /\ assigned_hours' = current_assigned_hours(rows)
               /\ changes' = 0
               /\ day' = first[1]
               /\ shift_idx' = first[2]
               /\ rec_idx' = 1
               /\ assigned_ids' = slot_assigned_ids(sched, year_var, month_var, first)
               /\ new_assignments' = <<>>
               /\ UNCHANGED <<message, history, warnings_list>>
    /\ UNCHANGED <<dbVars, current_date>>
    /\ UNCHANGED statsVars

\* one record of the slot loop of either pass; replacement is the candidate found, or
\* NoCandidate when none was looked for or none was found
record_step(replacement) ==
    LET date_str == strftime(<<year_var, month_var, day>>)
        shift == shift_types[shift_idx]
        recs == schedule[date_str][shift]
        rec == recs[rec_idx]
        kept == IF replacement = NoCandidate THEN rec
                ELSE <<rec[1], replacement, EmployeeById(replacement).name>>
        done == Append(new_assignments, kept)
        sched == IF rec_idx < Len(recs) THEN schedule
                 ELSE [schedule EXCEPT ![date_str][shift] = done]
        pos == IF rec_idx < Len(recs) THEN <<day, shift_idx>>
               ELSE IF shift_idx < Len(shift_types)
                    THEN next_slot(sched, year_var, month_var, day, shift_idx + 1)
                    ELSE next_slot(sched, year_var, month_var, day + 1, 1)
    IN /\ IF replacement = NoCandidate
          THEN UNCHANGED <<shifts, assigned_hours, changes>>
          ELSE /\ shifts' = update_shift_assignment(shifts, rec[1], replacement)
               /\ assigned_hours' = moved_hours(assigned_hours, rec[2], replacement,
                                                shift_durations(shift))
               /\ changes' = changes + 1
       /\ schedule' = sched
       /\ day' = pos[1]
       /\ shift_idx' = pos[2]
       /\ IF rec_idx < Len(recs)
          THEN /\ rec_idx' = rec_idx + 1
               /\ new_assignments' = done
               /\ assigned_ids' = assigned_ids
          ELSE /\ rec_idx' = 1
               /\ new_assignments' = <<>>
               /\ assigned_ids' = slot_assigned_ids(sched, year_var, month_var, pos)
       /\ UNCHANGED <<employees, settings, absences, festivities, next_shift_id, schedules,
                      current_date, message, pc, warnings_list, pre, history, budget>>

\* lines 807-840: one record of pass 1
update_schedule_pass1 ==
    /\ pc = "pass1"
    /\ day <= days_in_month(year_var, month_var)
    /\ LET current == <<year_var, month_var, day>>
           shift == shift_types[shift_idx]
           rec == schedule[strftime(current)][shift][rec_idx]
       IN IF is_absent(rec[2], current, year_var, month_var)
          THEN record_step(pass1_candidate(current, shift, assigned_ids, assigned_hours,
                                           year_var, month_var))
          ELSE record_step(NoCandidate)
    /\ UNCHANGED statsVars

\* mutation: pass 2 counts its own rewrites from 0
update_schedule_pass2_begin_recount ==
    /\ pc = "pass1"
    /\ day > days_in_month(year_var, month_var)
    /\ pc' = "pass2"
    /\ changes' = 0
    /\ LET first == next_slot(schedule, year_var, month_var, 1, 1)
       IN /\ day' = first[1]
          /\ shift_idx' = first[2]
          /\ rec_idx' = 1
          /\ assigned_ids' = slot_assigned_ids(schedule, year_var, month_var, first)
          /\ new_assignments' = <<>>
    /\ UNCHANGED <<dbVars, current_date, message, assigned_hours, schedule, warnings_list,
                   pre, history, budget>>
    /\ UNCHANGED statsVars
\* line 844: pass 1 has scanned every day, pass 2 starts from day 1
update_schedule_pass2_begin ==
    /\ pc = "pass1"
    /\ day > days_in_month(year_var, month_var)
    /\ pc' = "pass2"
    /\ LET first == next_slot(schedule, year_var, month_var, 1, 1)
       IN /\ day' = first[1]
          /\ shift_idx' = first[2]
          /\ rec_idx' = 1
          /\ assigned_ids' = slot_assigned_ids(schedule, year_var, month_var, first)
          /\ new_assignments' = <<>>
    /\ UNCHANGED <<dbVars, current_date, message, assigned_hours, schedule, warnings_list,
                   changes, pre, history, budget>>
    /\ UNCHANGED statsVars

\* mutation: an employee exactly OverAssignedThreshold hours over is rebalanced too
update_schedule_pass2_at_threshold ==
    /\ pc = "pass2"
    /\ day <= days_in_month(year_var, month_var)
    /\ LET current == <<year_var, month_var, day>>
           shift == shift_types[shift_idx]
           rec == schedule[strftime(current)][shift][rec_idx]
       IN IF remaining_hours(EmployeeById(rec[2]), assigned_hours) <= -OverAssignedThreshold
          THEN record_step(pass2_candidate(current, shift, assigned_ids, assigned_hours,
                                           year_var, month_var))
          ELSE record_step(NoCandidate)
    /\ UNCHANGED statsVars
\* lines 854-881: one record of pass 2
update_schedule_pass2 ==
    /\ pc = "pass2"
    /\ day <= days_in_month(year_var, month_var)
    /\ LET current == <<year_var, month_var, day>>
           shift == shift_types[shift_idx]
           rec == schedule[strftime(current)][shift][rec_idx]
       IN IF remaining_hours(EmployeeById(rec[2]), assigned_hours) < -OverAssignedThreshold
          THEN record_step(pass2_candidate(current, shift, assigned_ids, assigned_hours,
                                           year_var, month_var))
          ELSE record_step(NoCandidate)
    /\ UNCHANGED statsVars

\* lines 884-902: show the roster and the count, save the snapshot
update_schedule_finish ==
    /\ pc = "pass2"
    /\ day > days_in_month(year_var, month_var)
    /\ message' = <<"showinfo", "Update Complete", changes>>
    /\ schedules' = Put(schedules, <<year_var, month_var>>, schedule)
    /\ pc' = "idle"
    /\ history' = Append(history, Handler("update"))
    /\ ResetLocals
    /\ UNCHANGED <<employees, settings, absences, festivities, shifts, next_shift_id,
                   current_date, pre, budget>>
    /\ UNCHANGED statsVars

----------------------------------------------------------------------------
(* Initial states *)

NoPreferences == [s \in {} |-> 0]
SomePreferences == [s \in ShiftSet |-> CASE s = "Morning" -> 2
                                         [] s = "Afternoon" -> 1
                                         [] s = "Night" -> 0]
\* (target_hours, preferences) of the employees entered
Profiles == {<<16, NoPreferences>>, <<8, NoPreferences>>, <<8, SomePreferences>>}
NameOf(id) == <<"name", id>>
EmployeeTables ==
    UNION {{[i \in 1..n |-> [id |-> i, name |-> NameOf(i), target_hours |-> p[i][1],
                            accumulated_hours |-> 0, preferences |-> p[i][2]]] :
                p \in [1..n -> Profiles]} : n \in 0..MaxEmp}

MkSettings(sm, sa, sn, dm, da, dn) ==
    [k \in {"staffing_morning", "staffing_afternoon", "staffing_night",
            "duration_morning", "duration_afternoon", "duration_night"} |->
        CASE k = "staffing_morning" -> sm
          [] k = "staffing_afternoon" -> sa
          [] k = "staffing_night" -> sn
          [] k = "duration_morning" -> dm
          [] k = "duration_afternoon" -> da
          [] k = "duration_night" -> dn]
NumericSettings(sm, sa, sn, dm, da, dn) ==
    MkSettings(str(sm), str(sa), str(sn), str(dm), str(da), str(dn))
\* create_tables' defaults, a single staffed shift type, and a staffing above the head count
DefaultSettings == NumericSettings(2, 2, 1, 7, 8, 8)
GoodSettings == {DefaultSettings, NumericSettings(1, 0, 0, 8, 8, 8), NumericSettings(0, 3, 1, 7, 8, 8)}
\* a non-numeric text typed into the settings form, for a staffing and for a duration
BadSettings == {[DefaultSettings EXCEPT !["staffing_afternoon"] = NotANumber],
                [DefaultSettings EXCEPT !["duration_night"] = NotANumber]}

\* absence rows of employees 1..n within the assignable days of the month shown first
AbsenceRows(n) ==
    {[employee_id |-> e,
      start_date |-> strftime(<<today[1], today[2], iv[1]>>),
      end_date |-> strftime(<<today[1], today[2], iv[2]>>)] :
        e \in 1..n, iv \in {p \in (1..WorkDays) \X (1..WorkDays) : p[1] <= p[2]}}
AbsenceTables(n) == {t \in SUBSET AbsenceRows(n) : Cardinality(t) <= MaxAbs}

\* day 1 of each month is a working festivity, days 2..work_days are ordinary days,
\* every later day is a non-working festivity
FestivityTable(work_days) ==
    LET dates == UNION {{strftime(<<ym[1], ym[2], d>>) :
                            d \in {1} \cup ((work_days + 1)..days_in_month(ym[1], ym[2]))} : ym \in Months}
    IN [d \in dates |-> strptime(d)[3] = 1]

InitAt(shown, emps, sett, abs, fest, calls) ==
    /\ employees = emps
    /\ settings = sett
    /\ absences = abs
    /\ festivities = fest
    /\ shifts = <<>>
    /\ next_shift_id = 1
    /\ schedules = EmptyDict
    /\ current_date = shown
    /\ message = <<>>
    /\ pc = "idle"
    /\ day = 0 /\ shift_idx = 0 /\ rec_idx = 0
    /\ assigned_hours = EmptyDict /\ schedule = EmptyDict /\ warnings_list = <<>>
    /\ changes = 0 /\ assigned_ids = <<>> /\ new_assignments = <<>>
    /\ pre = [shifts |-> <<>>, schedules |-> EmptyDict]
    /\ history = <<>>
    /\ budget = calls
    /\ stats_date = <<today[1], today[2], 1>>
    /\ tree = <<>>
\* ScheduleTab.__init__, line 501: the month of today is shown
InitWith(emps, sett, abs, fest, calls) ==
    InitAt(<<today[1], today[2], 1>>, emps, sett, abs, fest, calls)

\* generation from any bounded database
InitGen ==
    \E emps \in EmployeeTables, sett \in GoodSettings \cup BadSettings :
        \E abs \in AbsenceTables(Len(emps)) : InitWith(emps, sett, abs, FestivityTable(WorkDays), GenCalls)
NextGen == generate_schedule_begin \/ generate_schedule_step \/ generate_schedule_finish
SpecGen == InitGen /\ [][NextGen]_vars

----------------------------------------------------------------------------
(* Vocabulary of the claims *)

LastHandler == IF history = <<>> THEN "none" ELSE history[Len(history)].name
\* the last handler was a generate_schedule call that ran to its end (line 730)
GenerateDone ==
    /\ pc = "idle"
    /\ LastHandler = "generate"
    /\ message[2] \in {"Warning", "Success"}
ShownYear == year_of(current_date)
ShownMonth == month_of(current_date)
ShownDays == 1..days_in_month(ShownYear, ShownMonth)
DateStr(d) == strftime(<<ShownYear, ShownMonth, d>>)
\* the stored shift rows of one slot, in id order
SlotRows(tbl, date_str, shift) ==
    SelectSeq(tbl, LAMBDA r : r.shift_date = date_str /\ r.shift_type = shift)
\* an absence row of the employee covers the date, both ends included
Absent(emp_id, date_obj) ==
    \E a \in absences :
        /\ a.employee_id = emp_id
        /\ a.start_date <= strftime(date_obj)
        /\ strftime(date_obj) <= a.end_date
Present(date_obj) == {e \in EmployeeIds : ~Absent(e, date_obj)}
Assignable(d) == ~(DateStr(d) \in DOMAIN festivities /\ festivities[DateStr(d)] = FALSE)
Required(shift) == int(settings[staffing_key(shift)])
Hours(shift) == int(settings[duration_key(shift)])

\* the slot sizes of a finished generation, in the snapshot and in the shift rows
SlotSizes(zero_only_when_all_absent) ==
    GenerateDone =>
        \A d \in ShownDays : \A s \in ShiftSet :
            Assignable(d) =>
                LET n == Len(SlotRows(shifts, DateStr(d), s))
                    snap == schedules[<<ShownYear, ShownMonth>>]
                IN /\ DateStr(d) \in DOMAIN snap
                   /\ s \in DOMAIN snap[DateStr(d)]
                   /\ Len(snap[DateStr(d)][s]) = n
                   /\ (Present(<<ShownYear, ShownMonth, d>>) # {} => n = Required(s))
                   /\ (n = 0 => \/ Present(<<ShownYear, ShownMonth, d>>) = {}
                                \/ ~zero_only_when_all_absent /\ Required(s) = 0)
                   /\ (n = 0 \/ n = Required(s))

\* C1 as stated: after generate_schedule completes, every slot of an assignable date
\* holds exactly required_staffing entries when some employee is not absent, holds zero
\* entries only when every employee is absent, and never holds another number.
C1_AsStated == SlotSizes(TRUE)

\* C1 (amended): after generate_schedule completes, every slot of an assignable date holds
\* exactly required_staffing entries when some employee is not absent, and holds zero
\* entries only when every employee is absent or required_staffing is 0; no slot holds a
\* number of entries strictly between 0 and required_staffing or above it.
C1_SlotSizes == SlotSizes(FALSE)

\* a finished generation with an empty slot (everyone absent) and a padded full slot
C1_Witness ==
    /\ GenerateDone
    /\ \E d \in ShownDays : \E s \in ShiftSet :
          Assignable(d) /\ Present(<<ShownYear, ShownMonth, d>>) = {}
          /\ Required(s) > 0 /\ SlotRows(shifts, DateStr(d), s) = <<>>
    /\ \E d \in ShownDays : \E s \in ShiftSet :
          /\ Cardinality(Present(<<ShownYear, ShownMonth, d>>)) \in 1..(Required(s) - 1)
          /\ Len(SlotRows(shifts, DateStr(d), s)) = Required(s)

\* --- one step of the slot loop, seen from outside ---
SlotStep == pc = "gen" /\ pc' = "gen" /\ ~(shift_idx = 1 /\ ~Assignable(day)) /\ day \in ShownDays
StepShift == shift_types[shift_idx]
StepDate == <<ShownYear, ShownMonth, day>>
\* the employee ids of the rows the step inserted, in insertion order
StepAssigned ==
    [i \in 1..(Len(shifts') - Len(shifts)) |-> shifts'[Len(shifts) + i].employee_id]
\* hours already on the roster of the shown month for an employee, counted from the shift rows
RosterHours(tbl, emp_id) ==
    LET rows == SelectSeq(shifts_in_month(tbl, ShownYear, ShownMonth),
                          LAMBDA r : r.employee_id = emp_id)
        RECURSIVE Sum(_)
        Sum(i) == IF i = 0 THEN 0 ELSE Sum(i - 1) + Hours(rows[i].shift_type)
    IN Sum(Len(rows))
\* remaining hours of an employee before the step: target - accumulated - hours on the roster
Remaining(emp_id) ==
    LET e == EmployeeById(emp_id)
    IN e.target_hours - e.accumulated_hours - RosterHours(shifts, emp_id)
\* preference weight for the step's shift type, 1 when unlisted
Weight(emp_id, shift) ==
    LET e == EmployeeById(emp_id)
    IN IF shift \in DOMAIN e.preferences THEN e.preferences[shift] ELSE 1
\* a ranks strictly before b: higher weight, then more remaining hours, then input order
RanksBefore(a, b, shift) ==
    \/ Weight(a, shift) > Weight(b, shift)
    \/ Weight(a, shift) = Weight(b, shift) /\ Remaining(a) > Remaining(b)
    \/ Weight(a, shift) = Weight(b, shift) /\ Remaining(a) = Remaining(b) /\ a < b
\* list is the whole of set in ranked order
IsRanking(list, set, shift) ==
    /\ {list[i] : i \in 1..Len(list)} = set
    /\ Len(list) = Cardinality(set)
    /\ \A i \in 1..Len(list) : \A j \in (i + 1)..Len(list) : RanksBefore(list[i], list[j], shift)

\* C6: in a slot with at least 1 but fewer than required_staffing non-absent employees the
\* assigned list is every eligible employee in ranked order followed by the top-ranked one
\* repeated up to required_staffing entries, and a warning naming the shift type and the
\* date is recorded.
C6_PadsWithTopCandidate ==
    [][SlotStep /\ Cardinality(Present(StepDate)) \in 1..(Required(StepShift) - 1) =>
        LET k == Cardinality(Present(StepDate))
            L == StepAssigned
        IN /\ Len(L) = Required(StepShift)
           /\ IsRanking(SubSeq(L, 1, k), Present(StepDate), StepShift)
           /\ \A i \in (k + 1)..Len(L) : L[i] = L[1]
           /\ schedule'[strftime(StepDate)][StepShift] = [i \in 1..Len(L) |-> NameOf(L[i])]
           /\ Len(warnings_list') = Len(warnings_list) + 1
           /\ warnings_list'[Len(warnings_list')].shift = StepShift
           /\ warnings_list'[Len(warnings_list')].date = strftime(StepDate)
      ]_vars

\* a slot was just padded: two eligible employees, then the first of them again
C6_Witness ==
    /\ pc = "gen"
    /\ warnings_list # <<>>
    /\ warnings_list[Len(warnings_list)].kind = "not_enough"
    /\ Len(shifts) >= 3
    /\ shifts[Len(shifts)].shift_date = warnings_list[Len(warnings_list)].date
    /\ shifts[Len(shifts)].shift_type = warnings_list[Len(warnings_list)].shift
    /\ shifts[Len(shifts)].employee_id = shifts[Len(shifts) - 2].employee_id
    /\ shifts[Len(shifts)].employee_id # shifts[Len(shifts) - 1].employee_id
    /\ shifts[Len(shifts) - 2].shift_type = shifts[Len(shifts)].shift_type
    /\ shifts[Len(shifts) - 2].shift_date = shifts[Len(shifts)].shift_date

\* C7: in every slot the eligible employees are ordered by preference weight descending
\* (unlisted = 1), then remaining hours descending, equal ones in input order, and the first
\* required_staffing of that order are assigned: no unassigned eligible employee ranks
\* before an assigned one.
C7_RankedAssignment ==
    [][SlotStep /\ Present(StepDate) # {} =>
        LET L == StepAssigned
            k == IF Required(StepShift) < Cardinality(Present(StepDate))
                 THEN Required(StepShift) ELSE Cardinality(Present(StepDate))
            chosen == {L[i] : i \in 1..k}
        IN /\ Len(L) >= k
           /\ chosen \subseteq Present(StepDate)
           /\ IsRanking(SubSeq(L, 1, k), chosen, StepShift)
           /\ \A u \in Present(StepDate) \ chosen : \A a \in chosen : RanksBefore(a, u, StepShift)
      ]_vars

\* a slot where the order decided: two employees were assigned, the first of them on a
\* higher preference weight than the second, and a third eligible employee was left out
C7_Witness ==
    /\ pc = "gen"
    /\ Len(shifts) >= 2
    /\ LET r == shifts[Len(shifts)]
           q == shifts[Len(shifts) - 1]
           d == strptime(r.shift_date)
       IN /\ q.shift_date = r.shift_date /\ q.shift_type = r.shift_type
          /\ q.employee_id # r.employee_id
          /\ Present(d) \ {q.employee_id, r.employee_id} # {}
          /\ \E u \in Present(d) \ {q.employee_id, r.employee_id} :
                Weight(u, r.shift_type) < Weight(q.employee_id, r.shift_type)
          /\ Weight(q.employee_id, r.shift_type) > Weight(r.employee_id, r.shift_type)

\* generation, repair, clearing, month navigation and the settings form, from an empty
\* roster with the default settings and employees of one profile
UniformEmployeeTables ==
    {t \in EmployeeTables :
        \A i \in 1..Len(t) : t[i].target_hours = 16 /\ t[i].preferences = NoPreferences}
StoreSettings == {DefaultSettings} \cup BadSettings
Init ==
    \E emps \in UniformEmployeeTables :
        InitWith(emps, DefaultSettings, {}, FestivityTable(WorkDays), StoreCalls)
NextRepair ==
    \/ update_schedule_begin
    \/ update_schedule_pass1
    \/ update_schedule_pass2_begin
    \/ update_schedule_pass2
    \/ update_schedule_finish
Next ==
    \/ NextGen
    \/ NextRepair
    \/ clear_schedule
    \/ prev_month
    \/ next_month
    \/ \E sett \in StoreSettings : save_settings(sett)
Spec == Init /\ [][Next]_vars

----------------------------------------------------------------------------
(* Generation with one staffed shift type and no absences *)

\* (target_hours, accumulated_hours) of the employees entered
FairProfiles == {<<8, 0>>, <<16, 0>>, <<24, 0>>, <<32, 8>>}
FairEmployeeTables ==
    UNION {{[i \in 1..n |-> [id |-> i, name |-> NameOf(i), target_hours |-> p[i][1],
                            accumulated_hours |-> p[i][2], preferences |-> q]] :
                p \in {f \in [1..n -> FairProfiles] :
                          \A i \in 1..n : \A j \in 1..n :
                              i # j => f[i][1] - f[i][2] # f[j][1] - f[j][2]},
                q \in {NoPreferences, SomePreferences}} : n \in 1..MaxEmp}
InitFair ==
    \E emps \in FairEmployeeTables :
        InitWith(emps, NumericSettings(1, 0, 0, 8, 8, 8), {}, FestivityTable(FairDays), GenCalls)
SpecFair == InitFair /\ [][NextGen]_vars

\* no absences, one shift type with staffing 1 and duration 8, equal preferences,
\* pairwise distinct initial remaining hours
FairSetting ==
    /\ absences = {}
    /\ Required("Morning") = 1 /\ Hours("Morning") = 8
    /\ Required("Afternoon") = 0 /\ Required("Night") = 0
    /\ \A a \in EmployeeIds : \A b \in EmployeeIds :
          /\ EmployeeById(a).preferences = EmployeeById(b).preferences
          /\ a # b => EmployeeById(a).target_hours - EmployeeById(a).accumulated_hours
                      # EmployeeById(b).target_hours - EmployeeById(b).accumulated_hours
InitialRemaining(emp_id) ==
    EmployeeById(emp_id).target_hours - EmployeeById(emp_id).accumulated_hours

\* C8: with no absences, one shift type with staffing 1 and duration 8, equal preferences
\* and pairwise distinct initial remaining hours, each day's shift goes to an employee
\* whose remaining hours are maximal at that moment, and at the end of the month an
\* employee who started with more remaining hours has not been assigned fewer hours.
C8_FairShare ==
    [][FairSetting =>
        /\ (SlotStep /\ StepShift = "Morning" =>
               /\ Len(StepAssigned) = 1
               /\ \A e \in EmployeeIds : Remaining(StepAssigned[1]) >= Remaining(e))
        /\ (pc' = "gen" /\ day' > days_in_month(ShownYear, ShownMonth) =>
               \A a \in EmployeeIds : \A b \in EmployeeIds :
                   InitialRemaining(a) > InitialRemaining(b) =>
                       RosterHours(shifts', a) >= RosterHours(shifts', b))
      ]_vars

\* the month is done, the shift moved between employees, and their hours differ
C8_Witness ==
    /\ FairSetting
    /\ pc = "gen" /\ day > days_in_month(ShownYear, ShownMonth)
    /\ \E a \in EmployeeIds : \E b \in EmployeeIds :
          /\ InitialRemaining(a) > InitialRemaining(b)
          /\ RosterHours(shifts, a) > RosterHours(shifts, b)
          /\ RosterHours(shifts, b) > 0

----------------------------------------------------------------------------
(* Claims about what generation leaves in the store *)

SettingsNumeric == staffing_ok /\ durations_ok
\* the last handler was a generate_schedule call (however it ended)
GenerateReturned == pc = "idle" /\ LastHandler = "generate"
ShownKey == <<ShownYear, ShownMonth>>
\* the snapshot of the month shown has one entry per date of the month: an empty one for
\* a non-working festivity, one list per shift type otherwise
WholeMonthSnapshot ==
    /\ ShownKey \in DOMAIN schedules
    /\ DOMAIN schedules[ShownKey] = {DateStr(d) : d \in ShownDays}
    /\ \A d \in ShownDays :
          DOMAIN schedules[ShownKey][DateStr(d)] = IF Assignable(d) THEN ShiftSet ELSE {}

C2_Returned ==
       (GenerateReturned =>
          IF employees = <<>>
          THEN message = <<"showwarning", "No Employees">> /\ schedules = pre.schedules
          ELSE IF ~SettingsNumeric
          THEN message = <<"showerror", "Error">> /\ schedules = pre.schedules
          ELSE /\ message[2] \in {"Warning", "Success"}
               /\ WholeMonthSnapshot
               /\ message[2] = "Warning" <=>
                     \E d \in ShownDays : \E t \in ShiftSet :
                        /\ Assignable(d)
                        /\ Cardinality(Present(<<ShownYear, ShownMonth, d>>)) = 0
                           \/ Cardinality(Present(<<ShownYear, ShownMonth, d>>)) < Required(t))

\* the position of generate_schedule in its loops over the days and the shift types
LoopPosition == day * Len(shift_types) + shift_idx
\* the loops stay within the month, where the next pass or the end of the call applies
LoopInRange ==
    pc = "gen" => /\ day \in 1..(days_in_month(ShownYear, ShownMonth) + 1)
                  /\ shift_idx \in 1..Len(shift_types)
                  /\ day = days_in_month(ShownYear, ShownMonth) + 1 => shift_idx = 1

C3_AsStated ==
    GenerateReturned /\ employees # <<>> /\ ~SettingsNumeric =>
        /\ message[1] = "showerror"
        /\ shifts_in_month(shifts, ShownYear, ShownMonth)
              = shifts_in_month(pre.shifts, ShownYear, ShownMonth)
        /\ schedules = pre.schedules

\* the names a snapshot lists for a slot: generation saves names, repair saves
\* (shift_id, emp_id, emp_name) triples
SnapshotNames(snap, date_str, shift) ==
    IF date_str \in DOMAIN snap /\ shift \in DOMAIN snap[date_str]
    THEN [i \in 1..Len(snap[date_str][shift]) |->
             IF Len(snap[date_str][shift][i]) = 3 THEN snap[date_str][shift][i][3]
             ELSE snap[date_str][shift][i]]
    ELSE <<>>
\* the names of the employees of the stored rows of a slot, in id order
StoredNames(tbl, date_str, shift) ==
    [i \in 1..Len(SlotRows(tbl, date_str, shift)) |->
        NameOf(SlotRows(tbl, date_str, shift)[i].employee_id)]
\* snapshot and shift rows of a month describe the same roster
SameRoster(tbl, snaps, ym) ==
    LET dates == {strftime(<<ym[1], ym[2], d>>) : d \in 1..days_in_month(ym[1], ym[2])}
    IN IF ym \in DOMAIN snaps
       THEN \A ds \in dates : \A t \in ShiftSet :
               SnapshotNames(snaps[ym], ds, t) = StoredNames(tbl, ds, t)
       ELSE shifts_in_month(tbl, ym[1], ym[2]) = <<>>

\* C4: between operations the saved snapshot of a month and its stored shift rows
\* describe the same roster, also after calls that return early or fail.
C4_AsStated == pc = "idle" => \A ym \in Months : SameRoster(shifts, schedules, ym)

\* C5: a successful generate_schedule for month M leaves as the stored rows of M exactly
\* the rows of the new assignment, none of the earlier rows of M, and leaves the rows and
\* the snapshots of every other month unchanged.
C5_Overwrites ==
    GenerateDone =>
        /\ \A i \in 1..Len(shifts) : \A j \in 1..Len(pre.shifts) :
              InMonth(shifts[i].shift_date, ShownYear, ShownMonth) => shifts[i].id # pre.shifts[j].id
        /\ SameRoster(shifts, schedules, ShownKey)
        /\ clear_shifts_for_month(shifts, ShownYear, ShownMonth)
              = SelectSeq(pre.shifts, LAMBDA r : ~InMonth(r.shift_date, ShownYear, ShownMonth))
        /\ \A ym \in Months \ {ShownKey} :
              /\ ym \in DOMAIN schedules <=> ym \in DOMAIN pre.schedules
              /\ ym \in DOMAIN schedules => schedules[ym] = pre.schedules[ym]

\* a generation finished over an earlier roster of the same month while another month
\* holds rows and a snapshot
C5_Witness ==
    /\ GenerateDone
    /\ shifts_in_month(pre.shifts, ShownYear, ShownMonth) # <<>>
    /\ shifts_in_month(shifts, ShownYear, ShownMonth) # <<>>
    /\ \E ym \in Months \ {ShownKey} :
          /\ shifts_in_month(pre.shifts, ym[1], ym[2]) # <<>>
          /\ ym \in DOMAIN pre.schedules

----------------------------------------------------------------------------
(* The repairer: generate, enter absences, repair, repair again *)

\* employees with target 16 and no preferences, the last one entered with any profile
RepairEmployeeTables ==
    {t \in EmployeeTables :
        \A i \in 1..(Len(t) - 1) : t[i].target_hours = 16 /\ t[i].preferences = NoPreferences}
InitRepair ==
    \E emps \in RepairEmployeeTables :
        InitWith(emps, DefaultSettings, {}, FestivityTable(WorkDays), RepairCalls)
NextAbsence == \E row \in AbsenceRows(Len(employees)) : add_absence(row)
SpecRepair == InitRepair /\ [][NextGen \/ NextRepair \/ NextAbsence]_vars

\* the last two handlers were update_schedule calls for the same month, and the second
\* one ran to its end
RepairedTwice ==
    /\ pc = "idle"
    /\ Len(history) >= 2
    /\ history[Len(history)] = Handler("update")
    /\ history[Len(history) - 1] = Handler("update")
    /\ message[2] = "Update Complete"

----------------------------------------------------------------------------
(* Claims about the repair passes *)

\* the record the repair loop is at, as (shift_id, emp_id, emp_name)
RepairDate == <<year_var, month_var, day>>
RepairShift == shift_types[shift_idx]
RepairSlot == schedule[strftime(RepairDate)][RepairShift]
RepairRecord == RepairSlot[rec_idx]
\* a pass is at a record (not past the last day)
AtRecord(pass) == pc = pass /\ day <= days_in_month(year_var, month_var)
\* the employees listed on the slot when the pass entered it
SlotIdsAtEntry == {RepairSlot[i][2] : i \in 1..Len(RepairSlot)}
\* the employees that could take over the record: not absent that date, not on the slot
Replacements == {e \in Present(RepairDate) : e \notin SlotIdsAtEntry}

----------------------------------------------------------------------------
(* The statistics: generate, change festivities, show the statistics, clear *)

\* employees with target 16 and no preferences; the last one entered may have
\* accumulated hours typed into the employee form
StatsEmployeeTables ==
    UNION {{[i \in 1..n |-> [id |-> i, name |-> NameOf(i), target_hours |-> 16,
                            accumulated_hours |-> IF i = n THEN acc ELSE 0,
                            preferences |-> NoPreferences]] : acc \in {0, 8}} : n \in 0..MaxEmp}
\* the assignable days of the months, where a festivity row is added or edited
FestivityDates == {strftime(<<ym[1], ym[2], d>>) : ym \in Months, d \in 1..WorkDays}
InitStats ==
    \E emps \in StatsEmployeeTables, sett \in {DefaultSettings, NumericSettings(1, 0, 0, 8, 8, 8)} :
        InitWith(emps, sett, {}, FestivityTable(WorkDays), StatsCalls)
NextFestivity ==
    \E date_str \in FestivityDates, is_working_day \in BOOLEAN :
        add_festivity(date_str, is_working_day) \/ edit_festivity(date_str, is_working_day)
NextStats ==
    \/ NextGen \/ clear_schedule \/ prev_month \/ next_month
    \/ show_stats \/ stats_prev_month \/ stats_next_month
    \/ NextFestivity
SpecStats == InitStats /\ [][NextStats]_vars

\* the last handler recomputed the carried-over hours (show_stats or clear_schedule)
StatisticsUpdated ==
    pc = "idle" /\ LastHandler \in {"show_stats", "clear"} /\ durations_ok
\* the months that have shift rows and whose last day is before today
CompletedMonths ==
    {ym \in {<<strptime(shifts[i].shift_date)[1], strptime(shifts[i].shift_date)[2]>> :
                i \in 1..Len(shifts)} :
        strftime(<<ym[1], ym[2], days_in_month(ym[1], ym[2])>>) < strftime(today)}
\* hours of the employee's shift rows of a month
MonthHours(emp_id, ym) ==
    LET rows == SelectSeq(shifts, LAMBDA r : r.employee_id = emp_id /\ InMonth(r.shift_date, ym[1], ym[2]))
    IN SumOver(1..Len(rows), [i \in 1..Len(rows) |-> Hours(rows[i].shift_type)])
\* the sum over the completed months of max(0, hours worked - target_hours)
CarryOver(emp_id) ==
    SumOver(CompletedMonths,
            [ym \in CompletedMonths |->
                IF MonthHours(emp_id, ym) > EmployeeById(emp_id).target_hours
                THEN MonthHours(emp_id, ym) - EmployeeById(emp_id).target_hours ELSE 0])

\* C12: after update_employee_statistics every employee's accumulated_hours is the sum,
\* over the months that ended before today, of max(0, hours worked - target_hours); an
\* employee without surplus ends with 0 whatever was stored before.
C12_AsStated ==
    StatisticsUpdated =>
        \A e \in EmployeeIds : EmployeeById(e).accumulated_hours = CarryOver(e)

\* C13: with shift rows, targets, durations and today unchanged, a second call of
\* update_employee_statistics leaves every accumulated_hours as the first call left it.
C13_Idempotent ==
    StatisticsUpdated => update_employee_statistics(shifts, employees) = employees

\* the statistics were shown twice in succession while an employee carries over a
\* surplus of a completed month
C13_Witness ==
    /\ StatisticsUpdated
    /\ Len(history) >= 2
    /\ history[Len(history)].name = "show_stats"
    /\ history[Len(history) - 1].name = "show_stats"
    /\ \E e \in EmployeeIds : CarryOver(e) > 0 /\ EmployeeById(e).accumulated_hours = CarryOver(e)

----------------------------------------------------------------------------
(* Claims about the snapshot, the festivities and the calendar *)

StatsShown == pc = "idle" /\ LastHandler = "show_stats" /\ durations_ok
\* the shift rows of the employee in the month of the statistics, festive or not: a row
\* is festive iff its date has a festivity row with is_working_day false
StatRows(emp_id, festive) ==
    {i \in 1..Len(shifts) :
        /\ shifts[i].employee_id = emp_id
        /\ InMonth(shifts[i].shift_date, stats_date[1], stats_date[2])
        /\ festive = (/\ shifts[i].shift_date \in DOMAIN festivities
                      /\ festivities[shifts[i].shift_date] = FALSE)}
StatHours(emp_id, festive) ==
    SumOver(StatRows(emp_id, festive),
            [i \in StatRows(emp_id, festive) |-> Hours(shifts[i].shift_type)])

\* C15: in the statistics of a month every shift row is counted once for its employee,
\* under festive shifts and hours iff its date has an override with is_working_day false
\* and under normal shifts and hours otherwise, and every employee, also one without a
\* shift in the month, has one row with the stored target and accumulated hours.
C15_StatsRows ==
    StatsShown =>
        /\ Len(tree) = Len(employees)
        /\ \A e \in EmployeeIds :
              \E i \in 1..Len(tree) :
                 /\ tree[i].name = EmployeeById(e).name
                 /\ \A j \in 1..Len(tree) : tree[j].name = tree[i].name => j = i
                 /\ tree[i].normal_shifts = Cardinality(StatRows(e, FALSE))
                 /\ tree[i].normal_hours = StatHours(e, FALSE)
                 /\ tree[i].fest_shifts = Cardinality(StatRows(e, TRUE))
                 /\ tree[i].fest_hours = StatHours(e, TRUE)
                 /\ tree[i].target = EmployeeById(e).target_hours
                 /\ tree[i].accumulated = EmployeeById(e).accumulated_hours

\* the statistics show an employee with a festive shift, one with a normal shift on a
\* date with a working override, and one without any shift
C15_Witness ==
    /\ StatsShown
    /\ \E i \in 1..Len(tree) : tree[i].fest_shifts > 0 /\ tree[i].fest_hours > 0
    /\ \E e \in EmployeeIds : \E i \in StatRows(e, FALSE) :
          shifts[i].shift_date \in DOMAIN festivities
    /\ \E i \in 1..Len(tree) : tree[i].normal_shifts = 0 /\ tree[i].fest_shifts = 0

\* the date has a festivity override with is_working_day false
NonWorkingOverride(d) ==
    DateStr(d) \in DOMAIN festivities /\ festivities[DateStr(d)] = FALSE

\* C16: on a date whose festivity override has is_working_day false generation records
\* an empty shift map, inserts no shift row and credits no hours; on a date with no
\* override or a working override the slot of each shift type is scheduled: it gets its
\* list in the shift map, and the rows inserted and the hours credited are those of the
\* list.
C16_NonWorkingSkipped ==
    [][pc = "gen" /\ pc' = "gen" /\ day \in ShownDays =>
        IF shift_idx = 1 /\ NonWorkingOverride(day)
        THEN /\ shifts' = shifts
             /\ assigned_hours' = assigned_hours
             /\ day' > day
             /\ \A k \in day..(day' - 1) :
                   NonWorkingOverride(k) /\ schedule'[DateStr(k)] = EmptyDict
        ELSE /\ ~NonWorkingOverride(day)
             /\ StepShift \in DOMAIN schedule'[DateStr(day)]
             /\ Len(schedule'[DateStr(day)][StepShift]) = Len(StepAssigned)
             /\ Len(StepAssigned) = IF EmployeeIds = {} THEN 0 ELSE Required(StepShift)
             /\ \A i \in 1..Len(StepAssigned) :
                   /\ shifts'[Len(shifts) + i].shift_date = DateStr(day)
                   /\ shifts'[Len(shifts) + i].shift_type = StepShift
             /\ \A e \in EmployeeIds :
                   assigned_hours'[e] = assigned_hours[e]
                       + Hours(StepShift) * Cardinality({i \in 1..Len(StepAssigned) : StepAssigned[i] = e})
      ]_vars

\* a generation finished on a month where a date whose override was edited to
\* non-working was skipped and a date that was given a working override was scheduled
C16_Witness ==
    /\ GenerateDone
    /\ \E d \in 1..WorkDays :
          /\ NonWorkingOverride(d)
          /\ schedules[ShownKey][DateStr(d)] = EmptyDict
          /\ \A i \in 1..Len(shifts) : shifts[i].shift_date # DateStr(d)
    /\ \E d \in 2..WorkDays :
          /\ DateStr(d) \in DOMAIN festivities /\ festivities[DateStr(d)] = TRUE
          /\ \E i \in 1..Len(shifts) : shifts[i].shift_date = DateStr(d)

----------------------------------------------------------------------------
(* C17: the absence test *)

\* the days of the month shown that the employee's absence rows cover, as the union of
\* the rows' intervals of date texts
AbsenceDays(emp_id) ==
    UNION {{d \in ShownDays : a.start_date <= DateStr(d) /\ DateStr(d) <= a.end_date} :
              a \in {r \in absences : r.employee_id = emp_id}}

----------------------------------------------------------------------------
(* C18: the dates of a month *)

\* the handler calls of a run of SpecCalendar
CalendarCalls == 3
\* the days FirstQuietDay..LastQuietDay of the month shown are non-working festivities
FirstQuietDay == 2
LastQuietDay == 27
\* leap and common years, a common and a leap century year, the last years of datetime.date
CalendarYears == {2000, 2023, 2024, 2100, 9998, 9999}

CalendarEmployees ==
    [i \in 1..MaxEmp |-> [id |-> i, name |-> NameOf(i), target_hours |-> 16,
                          accumulated_hours |-> 0, preferences |-> NoPreferences]]
CalendarFestivities(year, month) ==
    [d \in {strftime(<<year, month, k>>) : k \in FirstQuietDay..LastQuietDay} |-> FALSE]
\* one-day absences of the first employee on the first and on the last day of the month
CalendarAbsenceRows ==
    {[employee_id |-> 1,
      start_date |-> strftime(<<year_of(current_date), month_of(current_date), d>>),
      end_date |-> strftime(<<year_of(current_date), month_of(current_date), d>>)] :
        d \in {1, MonthLengths(year_of(current_date))[month_of(current_date)]}}
\* the schedule tab shows a month of one of the years
InitCalendar ==
    \E y \in CalendarYears, m \in 1..12 :
        InitAt(<<y, m, 1>>, CalendarEmployees, DefaultSettings, {},
               CalendarFestivities(y, m), CalendarCalls)
NextCalendarAbsence == \E row \in CalendarAbsenceRows : add_absence(row)
SpecCalendar == InitCalendar /\ [][NextGen \/ NextRepair \/ NextCalendarAbsence]_vars

\* the number of days of the month in the Gregorian calendar
CalendarLength(y, m) ==
    CASE m \in {4, 6, 9, 11} -> 30
      [] m = 2 -> IF (y % 400 = 0) \/ (y % 4 = 0 /\ y % 100 # 0) THEN 29 ELSE 28
      [] OTHER -> 31
MonthDates == {DateStr(d) : d \in 1..CalendarLength(ShownYear, ShownMonth)}
\* 1 January of the year after the month shown is a date
NextJanuaryExists == ShownMonth < 12 \/ ShownYear + 1 <= MAXYEAR

\* the records of the roster under repair, as (day, shift index, place in the slot), over
\* the dates of the month
RecordPositions(sched) ==
    UNION {{<<p[1], p[2], r>> : r \in 1..Len(sched[DateStr(p[1])][shift_types[p[2]]])} :
              p \in {q \in (1..CalendarLength(ShownYear, ShownMonth)) \X (1..Len(shift_types)) :
                        /\ DateStr(q[1]) \in DOMAIN sched
                        /\ shift_types[q[2]] \in DOMAIN sched[DateStr(q[1])]}}
PosLT(p, q) ==
    \/ p[1] < q[1]
    \/ p[1] = q[1] /\ p[2] < q[2]
    \/ p[1] = q[1] /\ p[2] = q[2] /\ p[3] < q[3]
RepairPos == <<day, shift_idx, rec_idx>>
InPass == pc \in {"pass1", "pass2"}

\* the generation loop has put into the roster the dates from day 1 up to the day it is
\* at, and no other
GenerationDates ==
    pc = "gen" =>
        /\ day \in 1..(CalendarLength(ShownYear, ShownMonth) + 1)
        /\ DOMAIN schedule = {DateStr(k) : k \in 1..(IF shift_idx = 1 THEN day - 1 ELSE day)}
\* a generation that returned has stored a roster of exactly the dates of the month
SnapshotDates ==
    (pc = "idle" /\ LastHandler = "generate") =>
        /\ GenerateDone
        /\ DOMAIN schedules[<<ShownYear, ShownMonth>>] = MonthDates
\* a pass of the repair starts at the first record of the roster, goes from each record to
\* the next one in the order of date, shift type and place, and ends after the last one
RepairVisitsInOrder ==
    /\ (pc' \in {"pass1", "pass2"} /\ pc' # pc) =>
           \A q \in RecordPositions(schedule') : q = RepairPos' \/ PosLT(RepairPos', q)
    /\ (InPass /\ pc' = pc) =>
           /\ RepairPos \in RecordPositions(schedule)
           /\ PosLT(RepairPos, RepairPos')
           /\ \A q \in RecordPositions(schedule) : ~(PosLT(RepairPos, q) /\ PosLT(q, RepairPos'))
    /\ (InPass /\ pc' # pc) =>
           \A q \in RecordPositions(schedule) : PosLT(q, RepairPos)

----------------------------------------------------------------------------
(* C19, C20: the replacement and the slot it joins *)

\* the employees the shift rows of the slot name at this moment, the rewrites made
\* earlier in the slot included
SlotIdsNow ==
    LET rows == SlotRows(shifts, strftime(RepairDate), RepairShift)
    IN {rows[i].employee_id : i \in 1..Len(rows)}
\* the step rewrites the record the pass is at
Rewrites(pass) == AtRecord(pass) /\ shifts' # shifts
\* the employee the rewritten record names
NewHolder ==
    LET i == CHOOSE j \in 1..Len(shifts') : shifts'[j].id = RepairRecord[1]
    IN shifts'[i].employee_id

RemainingNow(emp_id) ==
    EmployeeById(emp_id).target_hours - EmployeeById(emp_id).accumulated_hours
        - MonthHours(emp_id, <<year_var, month_var>>)
\* the place of the employee in the scan of the employee table
ScanPlace(emp_id) == CHOOSE i \in 1..Len(employees) : employees[i].id = emp_id
\* the employees pass 2 may move the record to: not absent that date, not on a shift row
\* of the slot, more than 0 hours remaining
Pass2Eligible ==
    {e \in Present(RepairDate) : e \notin SlotIdsNow /\ RemainingNow(e) > 0}

----------------------------------------------------------------------------
(* C21: the score of pass 1 *)

\* remaining hours by the ledger of the repair at this moment
LedgerRemaining(emp_id) ==
    EmployeeById(emp_id).target_hours - EmployeeById(emp_id).accumulated_hours
        - assigned_hours[emp_id]
\* remaining + 10 * preference for the shift type of the record, preference 1 when unlisted
Pass1Score(emp_id) == LedgerRemaining(emp_id) + 10 * Weight(emp_id, RepairShift)

----------------------------------------------------------------------------
(* C22: the threshold of pass 2 *)

\* one employee per Morning, with a Morning of 13 or of 14 hours: an employee with a
\* target of 8 hours ends 5 or 6 hours over after one Morning
ThresholdSettings == {NumericSettings(1, 0, 0, 13, 8, 8), NumericSettings(1, 0, 0, 14, 8, 8)}
\* three employees without preferences, each with a target of 8 or of 16 hours
ThresholdEmployeeTables ==
    {t \in EmployeeTables :
        Len(t) = MaxEmp /\ \A i \in 1..Len(t) : t[i].preferences = NoPreferences}
InitThreshold ==
    \E emps \in ThresholdEmployeeTables, sett \in ThresholdSettings :
        InitWith(emps, sett, {}, FestivityTable(WorkDays), RepairCalls)
SpecThreshold == InitThreshold /\ [][NextGen \/ NextRepair \/ NextAbsence]_vars

----------------------------------------------------------------------------
(* C23: pass 2 works on what pass 1 left *)

\* the roster of the repair names, record by record, the employee of the stored shift row
RosterAsStored ==
    \A i \in 1..Len(shifts) :
        InMonth(shifts[i].shift_date, year_var, month_var) =>
            /\ shifts[i].shift_date \in DOMAIN schedule
            /\ shifts[i].shift_type \in DOMAIN schedule[shifts[i].shift_date]
            /\ \E r \in 1..Len(schedule[shifts[i].shift_date][shifts[i].shift_type]) :
                   LET rec == schedule[shifts[i].shift_date][shifts[i].shift_type][r]
                   IN rec[1] = shifts[i].id /\ rec[2] = shifts[i].employee_id
\* the ledger of the repair holds for each employee the hours of the stored shift rows
LedgerAsStored ==
    \A e \in EmployeeIds : assigned_hours[e] = MonthHours(e, <<year_var, month_var>>)

----------------------------------------------------------------------------
(* C24: the ledger of the generation *)

\* the entries of the roster built so far that name the employee, as (date, shift type, place)
RosterEntries(emp_id) ==
    UNION {{<<p[1], p[2], i>> : i \in {j \in 1..Len(schedule[p[1]][p[2]]) :
                                          schedule[p[1]][p[2]][j] = EmployeeById(emp_id).name}} :
              p \in {q \in (DOMAIN schedule) \X ShiftSet : q[2] \in DOMAIN schedule[q[1]]}}
\* the durations of these entries added up
RosterEntryHours(emp_id) ==
    SumOver(RosterEntries(emp_id), [x \in RosterEntries(emp_id) |-> Hours(x[2])])
\* the ledger agrees with the roster built so far and with the shift rows inserted
GenerationLedgerExact ==
    pc = "gen" =>
        \A e \in EmployeeIds :
            /\ assigned_hours[e] = RosterEntryHours(e)
            /\ assigned_hours[e] = RosterHours(shifts, e)
            /\ remaining_hours(EmployeeById(e), assigned_hours)
                   = EmployeeById(e).target_hours - EmployeeById(e).accumulated_hours
                        - RosterEntryHours(e)

\* C24: while a generation runs, after each slot every employee's assigned hours are the
\* sum of the shift durations over the employee's entries in the roster, an employee
\* listed k times in a slot being counted k times; and a slot with somebody present gets
\* its full number of entries whatever the remaining hours are, below zero included.
C24_LedgerMatchesRoster ==
    /\ []GenerationLedgerExact
    /\ [][SlotStep /\ Present(StepDate) # {} => Len(StepAssigned) = Required(StepShift)]_vars
\* the generation has just filled a slot in which an employee is listed twice, and that
\* employee had no hours left before the slot
C24_Witness ==
    /\ pc = "gen"
    /\ shifts # <<>>
    /\ LET last == shifts[Len(shifts)]
           same == {i \in 1..Len(shifts) : /\ shifts[i].shift_date = last.shift_date
                                            /\ shifts[i].shift_type = last.shift_type
                                            /\ shifts[i].employee_id = last.employee_id}
       IN /\ Cardinality(same) >= 2
          /\ LedgerRemaining(last.employee_id) + Cardinality(same) * Hours(last.shift_type) < 0

----------------------------------------------------------------------------
(* C25: the eligible employees of a date *)

\* the employees the generation holds eligible for the slot it is at
EligibleIds ==
    LET list == eligible(StepDate, ShownYear, ShownMonth)
    IN {list[i].id : i \in 1..Len(list)}

\* C25: at every slot of a date the generation holds eligible exactly the employees not
\* absent that date, whatever the shift type and whatever was assigned earlier that date;
\* so a slot that needs at least as many employees as are present takes all of them,
\* those already assigned that date included.
C25_EligibleByDateOnly ==
    /\ [](pc = "gen" /\ day \in ShownDays => EligibleIds = Present(StepDate))
    /\ [][SlotStep /\ Required(StepShift) >= Cardinality(Present(StepDate)) =>
             {StepAssigned[i] : i \in 1..Len(StepAssigned)} = Present(StepDate)]_vars
\* the generation has put an employee on two shift types of one date
C25_Witness ==
    /\ pc = "gen"
    /\ \E i \in 1..Len(shifts) : \E j \in 1..Len(shifts) :
          /\ shifts[i].shift_date = shifts[j].shift_date
          /\ shifts[i].shift_type # shifts[j].shift_type
          /\ shifts[i].employee_id = shifts[j].employee_id
          /\ shifts[j].shift_date = DateStr(day) /\ shift_idx > 1

----------------------------------------------------------------------------
(* C26: the loops end *)

\* the number of records of the roster under repair that the pass has not yet visited
RecordsAhead ==
    Cardinality({q \in RecordPositions(schedule) : q = RepairPos \/ PosLT(RepairPos, q)})

----------------------------------------------------------------------------
(* C27: the ledger of the repair *)

\* the hours of all the shift rows of the month under repair
StoredHours(tbl) ==
    LET rows == shifts_in_month(tbl, year_var, month_var)
    IN SumOver(1..Len(rows), [i \in 1..Len(rows) |-> Hours(rows[i].shift_type)])
\* the hours of the ledger added up over the employees
LedgerTotal == SumOver(EmployeeIds, [e \in EmployeeIds |-> assigned_hours[e]])

----------------------------------------------------------------------------
(* C28: what a repair changes *)

\* the two tables have the same rows but for the employees
SameRecords(a, b) ==
    /\ Len(a) = Len(b)
    /\ \A i \in 1..Len(a) : /\ a[i].id = b[i].id
                             /\ a[i].shift_date = b[i].shift_date
                             /\ a[i].shift_type = b[i].shift_type
\* the rows whose employee differs
Rewritten(a, b) == {i \in 1..Len(a) : a[i].employee_id # b[i].employee_id}
\* the record ids of a slot of the roster, in the order of the roster
RosterIds(sched, date_str, shift) ==
    [i \in 1..Len(sched[date_str][shift]) |-> sched[date_str][shift][i][1]]
\* the roster has the slots of the stored rows, each with the ids of its rows in their order
RosterOfRows(sched, tbl) ==
    LET rows == shifts_in_month(tbl, year_var, month_var)
    IN /\ DOMAIN sched = {rows[i].shift_date : i \in 1..Len(rows)}
       /\ \A d \in DOMAIN sched :
              /\ DOMAIN sched[d] = {rows[i].shift_type :
                                       i \in {j \in 1..Len(rows) : rows[j].shift_date = d}}
              /\ \A t \in DOMAIN sched[d] :
                     RosterIds(sched, d, t)
                        = [i \in 1..Len(SlotRows(tbl, d, t)) |-> SlotRows(tbl, d, t)[i].id]

----------------------------------------------------------------------------
(* C29: the warnings of the generation *)

\* the warnings recorded for the slot
SlotWarnings(list, date_str, shift) ==
    {i \in 1..Len(list) : list[i].date = date_str /\ list[i].shift = shift}

----------------------------------------------------------------------------
(* C30: the employee pass 2 hands a record to *)

====
